---- MODULE Spec2Model ----
(***************************************************************************)
(* Model of pyredis: the distributed lock (with_lock / acquire_lock /      *)
(* release_lock) and the cache-aside scope (with_cache / SimpleCache /     *)
(* AsyncSimpleCache) of RedisCacheProxy, in the synchronous (proxy.py) and *)
(* the asynchronous (async_proxy.py) variant, over a Redis key.            *)
(*                                                                         *)
(* Every store round trip of a participant is one step; what a handler     *)
(* does between two round trips belongs to the step of the later one. The  *)
(* Redis client is outside the repository: its replies are modelled by     *)
(* their text, a failed command changes nothing and raises, and time       *)
(* passes in whole seconds (LockTick, CacheTick).                          *)
(***************************************************************************)
EXTENDS Integers, FiniteSets, Sequences, TLC

\* ------------------------------------------------------------------ bounds
NumProcs == 2
LockTTL == 2

Procs == 1..NumProcs
NoProc == 0

\* A key without expiry (Redis TTL -1).
NoTTL == -1

Modes == {"sync", "async"}

\* What the Redis client the caller supplied replies with: bytes (the
\* default of redis-py and of aioredis) or text (decode_responses=True,
\* encoding="utf-8").
Clients == {"bytes", "text"}

VARIABLES
    mode,     \* which variant of the library all participants run
    client,   \* the reply type of the Redis client the proxy was given
    lock,     \* the Redis key lock:<name>: [present, ttl]
    owner,    \* ghost: the participant whose SETNX created the present key
    lpc,      \* position of each participant in with_lock / acquire_lock
    entry,    \* which API the participant called
    abort,    \* why a with_lock is in its finally without having acquired
    ret,      \* the last completed call: [proc, op, outcome]
    faults,   \* ghost: which assumptions of the protocol were broken so far
    kv,       \* the Redis key of the cache entry: [kind, str, hash, members, ttl]
    wexp,     \* the EXPIRE a set_json of another user has still to send (NoTTL: none)
    spc,      \* position of each cache scope: "idle", "body", "expire" or "setexpire"
    sc,       \* the SimpleCache / AsyncSimpleCache object of each scope
    cret,     \* how the cache scope that completed last ended; none once a scope is opened
    promise,  \* ghost: the value the last miss-and-set scope left, and for how long
    mfn,      \* the function wrapped by memoize and the options of the decorator
    mpc,      \* position of the caller in decorated_function
    mcur,     \* the call in progress: what it read, the store writes it issued
    mret,     \* the last completed call of the wrapped function
    kargs,    \* the positional arguments of the calls of the wrapped function
    kkw,      \* their keyword arguments: name -> value
    kseen,    \* the orders in which the keyword arguments were passed so far
    kkey,     \* the key _make_cache_key gave for the last call
    kfirst    \* the key it gave for the first call with these arguments

lockVars == <<lock, owner, lpc, entry, abort, ret, faults>>
cacheVars == <<kv, wexp, spc, sc, cret, promise>>
memoVars == <<mfn, mpc, mcur, mret>>
keyVars == <<kargs, kkw, kseen, kkey, kfirst>>

\* ------------------------------------------------------- the Redis commands
KeyAbsent == [present |-> FALSE, ttl |-> NoTTL]

\* GET key: the stored value (the sentinel 1) or nil.
RedisGet(k) == IF k.present THEN "1" ELSE "nil"

\* Python truthiness of a store reply (bytes or None).
ReplyTruthy(reply) == reply \notin {"nil", ""}

\* A set-if-absent that sets the expiry in the same command (SET NX EX).
RedisSetnxStoreWithTTL(k) == IF k.present THEN k ELSE [present |-> TRUE, ttl |-> LockTTL]

\* SETNX key 1: creates the key without expiry only when it is absent.
RedisSetnxStore(k) == IF k.present THEN k ELSE [present |-> TRUE, ttl |-> NoTTL]
RedisSetnxReplyAsSet(k) == 1
RedisSetnxReply(k) == IF k.present THEN 0 ELSE 1

\* EXPIRE key secs: no effect on an absent key; a non-positive timeout
\* deletes the key; otherwise the key's time to live is replaced.
RedisExpire(k, secs) ==
    IF ~k.present THEN k
    ELSE IF secs <= 0 THEN KeyAbsent
    ELSE [k EXCEPT !.ttl = secs]

\* DEL key.
RedisDelete(k) == KeyAbsent

\* A store that never removes a key whose time to live has run out.
RedisTickKeeps(k) ==
    IF k.present /\ k.ttl > 1 THEN [k EXCEPT !.ttl = k.ttl - 1] ELSE k

\* One second of store time: a key with an expiry loses a second and is
\* removed when none is left.
RedisTick(k) ==
    IF k.present /\ k.ttl > 0
    THEN IF k.ttl = 1 THEN KeyAbsent ELSE [k EXCEPT !.ttl = k.ttl - 1]
    ELSE k

\* The integer replies of DEL and EXPIRE: 1 when the key was there, else 0.
RedisRemoveReply(k) == IF k.present THEN 1 ELSE 0

\* release_lock: DEL in proxy.py, safe_delete = EXPIRE key -1 in async_proxy.py
ReleaseStore(m, k) == IF m = "sync" THEN RedisDelete(k) ELSE RedisExpire(k, -1)

\* release_lock drops the reply of its store command: it returns None
\* whether or not a key was removed.
ReleaseRaisesOnMissing(reply) == reply = 0
ReleaseRaises(reply) == FALSE

\* ------------------------------------------------------------ the lock API
NoRet == [proc |-> NoProc, op |-> "none", outcome |-> "none"]

Holders == {p \in Procs : lpc[p] = "cs"}

\* The participant calls with_lock(name): the generator starts acquire_lock.
CallWithLock(p) ==
    /\ lpc[p] = "idle"
    /\ lpc' = [lpc EXCEPT ![p] = "get"]
    /\ entry' = [entry EXCEPT ![p] = "with_lock"]
    /\ UNCHANGED <<lock, owner, abort, ret, faults>>

\* The participant calls acquire_lock(name) directly.
CallAcquireLock(p) ==
    /\ lpc[p] = "idle"
    /\ lpc' = [lpc EXCEPT ![p] = "get"]
    /\ entry' = [entry EXCEPT ![p] = "acquire_lock"]
    /\ faults' = faults \cup {"direct"}
    /\ UNCHANGED <<lock, owner, abort, ret>>

\* The participant calls release_lock(name) directly, holding nothing.
CallReleaseLock(p) ==
    /\ lpc[p] = "idle"
    /\ lpc' = [lpc EXCEPT ![p] = "release"]
    /\ entry' = [entry EXCEPT ![p] = "release_lock"]
    /\ faults' = faults \cup {"direct"}
    /\ UNCHANGED <<lock, owner, abort, ret>>

\* An exception leaves acquire_lock: with_lock goes to its finally (which
\* calls release_lock), a direct call returns the exception to the caller.
AcquireRaises(p, why) ==
    IF entry[p] = "with_lock"
    THEN /\ lpc' = [lpc EXCEPT ![p] = "release"]
         /\ abort' = [abort EXCEPT ![p] = why]
         /\ UNCHANGED <<entry, ret>>
    ELSE /\ lpc' = [lpc EXCEPT ![p] = "idle"]
         /\ entry' = [entry EXCEPT ![p] = "none"]
         /\ ret' = [proc |-> p, op |-> "acquire_lock", outcome |-> why]
         /\ UNCHANGED abort

\* An acquire_lock that takes a store error of the read for "still
\* locked" and polls again after the sleep.
AcquireGetRetries(p, ok) ==
    /\ lpc[p] = "get"
    /\ IF ok
       THEN /\ lpc' = [lpc EXCEPT ![p] =
                          IF ReplyTruthy(RedisGet(lock)) THEN "sleep" ELSE "setnx"]
            /\ UNCHANGED faults
       ELSE /\ lpc' = [lpc EXCEPT ![p] = "sleep"]
            /\ faults' = faults \cup {"storefail"}
    /\ UNCHANGED <<lock, owner, entry, abort, ret>>

\* get_stored = client.get(key): sleep if it is truthy, else try SETNX.
AcquireGet(p, ok) ==
    /\ lpc[p] = "get"
    /\ IF ok
       THEN /\ lpc' = [lpc EXCEPT ![p] =
                          IF ReplyTruthy(RedisGet(lock)) THEN "sleep" ELSE "setnx"]
            /\ UNCHANGED <<entry, abort, ret, faults>>
       ELSE /\ AcquireRaises(p, "store_error")
            /\ faults' = faults \cup {"storefail"}
    /\ UNCHANGED <<lock, owner>>

\* time.sleep(step) / await asyncio.sleep(step) is over: read again.
AcquireSleep(p) ==
    /\ lpc[p] = "sleep"
    /\ lpc' = [lpc EXCEPT ![p] = "get"]
    /\ UNCHANGED <<lock, owner, entry, abort, ret, faults>>

\* An acquire_lock that sleeps after a lost SETNX before reading again.
AcquireSetnxSleeps(p, ok) ==
    /\ lpc[p] = "setnx"
    /\ IF ok
       THEN /\ lock' = RedisSetnxStore(lock)
            /\ owner' = IF RedisSetnxReply(lock) = 1 THEN p ELSE owner
            /\ lpc' = [lpc EXCEPT ![p] =
                          IF RedisSetnxReply(lock) = 1 THEN "expire" ELSE "sleep"]
            /\ UNCHANGED <<entry, abort, ret, faults>>
       ELSE /\ AcquireRaises(p, "store_error")
            /\ faults' = faults \cup {"storefail"}
            /\ UNCHANGED <<lock, owner>>

\* client.setnx(key, 1): on success go on to EXPIRE, else back to the read.
AcquireSetnx(p, ok) ==
    /\ lpc[p] = "setnx"
    /\ IF ok
       THEN /\ lock' = RedisSetnxStore(lock)
            /\ owner' = IF RedisSetnxReply(lock) = 1 THEN p ELSE owner
            /\ lpc' = [lpc EXCEPT ![p] =
                          IF RedisSetnxReply(lock) = 1 THEN "expire" ELSE "get"]
            /\ UNCHANGED <<entry, abort, ret, faults>>
       ELSE /\ AcquireRaises(p, "store_error")
            /\ faults' = faults \cup {"storefail"}
            /\ UNCHANGED <<lock, owner>>

\* client.expire(key, expire); return True: the caller holds the lock.
AcquireExpire(p, ok) ==
    /\ lpc[p] = "expire"
    /\ IF ok
       THEN /\ lock' = RedisExpire(lock, LockTTL)
            /\ lpc' = [lpc EXCEPT ![p] = "cs"]
            /\ ret' = [proc |-> p, op |-> "acquire_lock", outcome |-> "ok"]
            /\ UNCHANGED <<entry, abort, faults>>
       ELSE /\ AcquireRaises(p, "store_error")
            /\ faults' = faults \cup {"storefail"}
            /\ UNCHANGED lock
    /\ UNCHANGED owner

\* The task running the asynchronous acquire_lock is cancelled while it is
\* suspended in one of its awaits: CancelledError leaves acquire_lock.
\* Suspended in the await of EXPIRE, the command may already have been
\* applied by the store (applied) when the task is cancelled before it
\* sees the reply: the key then carries its ttl.
Cancel(p, applied) ==
    /\ mode = "async"
    /\ lpc[p] \in {"get", "sleep", "setnx", "expire"}
    /\ applied => lpc[p] = "expire"
    /\ AcquireRaises(p, IF lpc[p] = "sleep" THEN "cancelled_in_sleep" ELSE "cancelled")
    /\ faults' = faults \cup {"cancel"}
    /\ lock' = IF applied THEN RedisExpire(lock, LockTTL) ELSE lock
    /\ UNCHANGED owner

\* The store command of release_lock and the owner ghost after it.
ReleaseEffect(ok) ==
    /\ lock' = IF ok THEN ReleaseStore(mode, lock) ELSE lock
    /\ owner' = IF ok THEN NoProc ELSE owner

\* with_lock without its finally: release_lock only after a normal return.
ExitCSNoFinally(p, raised, ok) ==
    /\ lpc[p] = "cs"
    /\ raised => entry[p] = "with_lock"
    /\ ReleaseEffect(ok /\ ~raised)
    /\ lpc' = [lpc EXCEPT ![p] = "idle"]
    /\ entry' = [entry EXCEPT ![p] = "none"]
    /\ ret' = [proc |-> p,
               op |-> IF entry[p] = "with_lock" THEN "with_lock" ELSE "release_lock",
               outcome |-> IF ~ok THEN "store_error"
                           ELSE IF raised THEN "raised" ELSE "ok"]
    /\ faults' = IF ok THEN faults ELSE faults \cup {"storefail"}
    /\ UNCHANGED abort

\* The critical section ends, by return or by a raised error: the finally
\* of with_lock calls release_lock (a caller of acquire_lock calls it
\* itself, on return).
ExitCS(p, raised, ok) ==
    /\ lpc[p] = "cs"
    /\ raised => entry[p] = "with_lock"
    /\ ReleaseEffect(ok)
    /\ lpc' = [lpc EXCEPT ![p] = "idle"]
    /\ entry' = [entry EXCEPT ![p] = "none"]
    /\ ret' = [proc |-> p,
               op |-> IF entry[p] = "with_lock" THEN "with_lock" ELSE "release_lock",
               outcome |-> IF ~ok THEN "store_error"
                           ELSE IF raised THEN "raised"
                           ELSE IF ReleaseRaises(RedisRemoveReply(lock)) THEN "release_error"
                           ELSE "ok"]
    /\ faults' = IF ok THEN faults ELSE faults \cup {"storefail"}
    /\ UNCHANGED abort

\* release_lock of a with_lock whose acquire_lock raised (its finally), or
\* of a direct call: after it the pending exception goes to the caller.
ReleaseLock(p, ok) ==
    /\ lpc[p] = "release"
    /\ ReleaseEffect(ok)
    /\ lpc' = [lpc EXCEPT ![p] = "idle"]
    /\ entry' = [entry EXCEPT ![p] = "none"]
    /\ abort' = [abort EXCEPT ![p] = "none"]
    /\ ret' = [proc |-> p, op |-> entry[p],
               outcome |-> IF ~ok THEN "store_error"
                           ELSE IF entry[p] = "with_lock" THEN abort[p]
                           ELSE IF ReleaseRaises(RedisRemoveReply(lock)) THEN "release_error"
                           ELSE "ok"]
    /\ faults' = IF ok THEN faults ELSE faults \cup {"storefail"}

\* A second passes at the store. A key that expires under a participant
\* still in its critical section is an overrun of the ttl.
LockTick ==
    /\ lock.present /\ lock.ttl > 0
    /\ lock' = RedisTick(lock)
    /\ owner' = IF lock'.present THEN owner ELSE NoProc
    /\ faults' = IF ~lock'.present /\ Holders # {}
                 THEN faults \cup {"overrun"} ELSE faults
    /\ UNCHANGED <<lpc, entry, abort, ret>>

\* Where a participant was when its process died.
CrashAt(pc) ==
    CASE pc = "cs" -> "crash_in_cs"
      [] pc = "expire" -> "crash_before_expire"
      [] OTHER -> "crash"

\* The process of a participant dies inside with_lock or acquire_lock: no
\* finally runs and no further command is sent.
Crash(p) ==
    /\ lpc[p] \notin {"idle", "crashed"}
    /\ lpc' = [lpc EXCEPT ![p] = "crashed"]
    /\ abort' = [abort EXCEPT ![p] = CrashAt(lpc[p])]
    /\ faults' = faults \cup {"crash"}
    /\ UNCHANGED <<lock, owner, entry, ret>>

\* --------------------------------------------------- Python values and JSON
\* Python values are written as their repr. The caller of a cache scope
\* assigns one of Assignable to cache.data.
CacheTTL == 2

Assignable == {"0", "{}", "1", "(1, 2)", "{'x': 1}", "{'y': 2}"}

\* bool(v) of a Python value.
PyTruthy(v) == v \notin {"None", "0", "{}", "''", "False"}

\* isinstance(v, dict)
IsDict(v) ==
    v \in {"{}", "{'x': 1}", "{'y': 2}", "{'x': 1, 'y': 2}",
           "{b'x': 1}", "{b'y': 2}", "{b'x': 1, b'y': 2}"}

\* json.dumps(v): a tuple is written as a JSON array.
JsonDumps(v) ==
    CASE v = "None" -> "null"
      [] v = "0" -> "0"
      [] v = "1" -> "1"
      [] v = "2" -> "2"
      [] v = "(1, 2)" -> "[1, 2]"
      [] v = "[1, 2]" -> "[1, 2]"
      [] v = "''" -> "\"\""
      [] v = "False" -> "false"
      [] v = "{}" -> "{}"
      [] v = "{'x': 1}" -> "{\"x\": 1}"
      [] v = "{'y': 2}" -> "{\"y\": 2}"
      [] v = "{'x': 1, 'y': 2}" -> "{\"x\": 1, \"y\": 2}"

\* json.loads(t): a JSON array is read as a list.
JsonLoads(t) ==
    CASE t = "null" -> "None"
      [] t = "0" -> "0"
      [] t = "1" -> "1"
      [] t = "2" -> "2"
      [] t = "[1, 2]" -> "[1, 2]"
      [] t = "\"\"" -> "''"
      [] t = "false" -> "False"
      [] t = "{}" -> "{}"
      [] t = "{\"x\": 1}" -> "{'x': 1}"
      [] t = "{\"y\": 2}" -> "{'y': 2}"
      [] t = "{\"x\": 1, \"y\": 2}" -> "{'x': 1, 'y': 2}"

\* dict.items() of a mapping, as <<key, value>> pairs; a key is the text
\* x or the bytes b'x'.
DictItems(v) ==
    CASE v = "{}" -> {}
      [] v = "{'x': 1}" -> {<<"x", "1">>}
      [] v = "{'y': 2}" -> {<<"y", "2">>}
      [] v = "{'x': 1, 'y': 2}" -> {<<"x", "1">>, <<"y", "2">>}
      [] v = "{b'x': 1}" -> {<<"b'x'", "1">>}
      [] v = "{b'y': 2}" -> {<<"b'y'", "2">>}
      [] v = "{b'x': 1, b'y': 2}" -> {<<"b'x'", "1">>, <<"b'y'", "2">>}

\* The mapping built from <<key, value>> pairs.
DictOf(items) ==
    CASE items = {} -> "{}"
      [] items = {<<"x", "1">>} -> "{'x': 1}"
      [] items = {<<"y", "2">>} -> "{'y': 2}"
      [] items = {<<"x", "1">>, <<"y", "2">>} -> "{'x': 1, 'y': 2}"
      [] items = {<<"b'x'", "1">>} -> "{b'x': 1}"
      [] items = {<<"b'y'", "2">>} -> "{b'y': 2}"
      [] items = {<<"b'x'", "1">>, <<"b'y'", "2">>} -> "{b'x': 1, b'y': 2}"

\* The name of a hash field as the client replies it: bytes unless the
\* client decodes its replies.
ReplyName(c, f) ==
    IF c = "text" THEN f
    ELSE CASE f = "x" -> "b'x'" [] f = "y" -> "b'y'"

\* The name of the hash field the client writes for a key of a mapping:
\* text is encoded, bytes are sent as they are.
FieldName(n) ==
    CASE n = "x" -> "x" [] n = "y" -> "y"
      [] n = "b'x'" -> "x" [] n = "b'y'" -> "y"

\* ------------------------------------------- the Redis key of a cache entry
KvAbsent == [kind |-> "none", str |-> "", hash |-> {}, members |-> {}, ttl |-> NoTTL]

\* GET on a key that is no string, and HGETALL / HSET / HMSET / HDEL on a
\* key that is no hash, answer WRONGTYPE.
KvWrongType(k, isJson) ==
    IF isJson THEN k.kind \in {"string", "set"} ELSE k.kind \in {"hash", "set"}

\* GET key
KvGet(k) == IF k.kind = "string" THEN k.str ELSE "nil"

\* HGETALL key: the field/value pairs, none for an absent key.
KvHgetall(k) == IF k.kind = "hash" THEN k.hash ELSE {}

\* SET key text EX ex: replaces whatever the key held.
KvSet(k, text, ex) ==
    [kind |-> "string", str |-> text, hash |-> {}, members |-> {}, ttl |-> ex]

\* HMSET key fields: adds the fields to the ones the hash has, replacing
\* those of the same name; the expiry of the key stays. On a key that is
\* no hash it answers WRONGTYPE. HSET key field value does the same with
\* one field.
KvHmset(k, fields) ==
    IF KvWrongType(k, TRUE) THEN k
    ELSE [kind |-> "hash", str |-> "",
          hash |-> {old \in k.hash : \A new \in fields : new[1] # old[1]} \cup fields,
          members |-> {},
          ttl |-> k.ttl]

\* EXPIRE key secs: a key that is there gets the ttl, and is deleted when
\* secs is not positive.
KvExpire(k, secs) ==
    IF k.kind = "none" THEN k
    ELSE IF secs <= 0 THEN KvAbsent
    ELSE [k EXCEPT !.ttl = secs]

\* DEL key
KvDelete(k) == KvAbsent

\* The batch HMSET key fields; EXPIRE key ex. HMSET adds the fields to the
\* ones the hash has, replacing those of the same name. On a string key the
\* HMSET answers WRONGTYPE and the EXPIRE of the batch is still applied.
KvHmsetExpire(k, fields, ex) == KvExpire(KvHmset(k, fields), ex)

\* The batch of hset / hmset / set_json: the EXPIRE is queued only under
\* if ex, so not for ex=None.
KvHmsetIfExpire(k, fields, ex) ==
    IF ex = NoTTL THEN KvHmset(k, fields) ELSE KvHmsetExpire(k, fields, ex)

\* HDEL key names: the fields go, and the key with its last field. On a
\* key that is no hash nothing changes.
KvHdel(k, names) ==
    IF k.kind # "hash" THEN k
    ELSE IF {f \in k.hash : f[1] \notin names} = {} THEN KvAbsent
    ELSE [k EXCEPT !.hash = {f \in k.hash : f[1] \notin names}]

\* SADD key values: the key becomes, or stays, a set with the values among
\* its members, its expiry as it was. On a string or a hash it answers
\* WRONGTYPE.
KvSadd(k, values) ==
    IF k.kind \in {"string", "hash"} THEN k
    ELSE [kind |-> "set", str |-> "", hash |-> {},
          members |-> k.members \cup values, ttl |-> k.ttl]

\* SPOP key count with the members Redis chose to pop: the key goes with
\* its last member. On a key that is no set nothing changes.
KvSpop(k, popped) ==
    IF k.kind # "set" THEN k
    ELSE IF k.members \ popped = {} THEN KvAbsent
    ELSE [k EXCEPT !.members = k.members \ popped]

\* One second of store time for the cache key.
KvTick(k) ==
    IF k.kind # "none" /\ k.ttl > 0
    THEN IF k.ttl = 1 THEN KvAbsent ELSE [k EXCEPT !.ttl = k.ttl - 1]
    ELSE k

\* ------------------------------------------------------------ the cache scope
ScopeIds == {"s1", "s2"}

\* SimpleCache.__init__: data is None until the scope is entered. asked
\* keeps the is_update the scope was made with. raised and refused
\* describe an exit in progress: whether the caller's block raised, and
\* whether the HMSET of the flush was answered WRONGTYPE.
NewCache(api, isJson, isUpdate, isExcept) ==
    [api |-> api, json |-> isJson, except |-> isExcept,
     data |-> "None", update |-> isUpdate, hit |-> FALSE, assigned |-> FALSE,
     asked |-> isUpdate, raised |-> FALSE, refused |-> FALSE]

IdleCache == NewCache("none", FALSE, FALSE, FALSE)

NoCret == [outcome |-> "none", writes |-> 0, raised |-> FALSE,
           flushFailed |-> FALSE, case |-> "none"]

NoPromise == [v |-> "None", json |-> FALSE, left |-> 0]

\* AsyncSimpleCache.get calls res.decode("utf-8") on a reply of GET that
\* is not empty: the text a decoding client replies has no decode, and
\* the get raises AttributeError. SimpleCache.get decodes nothing.
CacheGetRaises(m, c, isJson, k) ==
    m = "async" /\ c = "text" /\ ~isJson /\ ReplyTruthy(KvGet(k))

\* SimpleCache.get / AsyncSimpleCache.get on a key of the right type: the
\* values of a hash are decoded, its field names are kept as replied.
CacheGet(m, c, isJson, k) ==
    IF isJson
    THEN IF KvHgetall(k) # {}
         THEN DictOf({<<ReplyName(c, f[1]), JsonLoads(f[2])>> : f \in KvHgetall(k)})
         ELSE "{}"
    ELSE IF ReplyTruthy(KvGet(k))
         THEN JsonLoads(KvGet(k))
         ELSE IF m = "sync" THEN "{}" ELSE "None"

\* A scope that takes every value found in the store for a hit.
OpenScopeHitIfPresent(p, api, isJson, isUpdate, isExcept, ok) ==
    /\ spc[p] = "idle"
    /\ IF ok /\ ~KvWrongType(kv, isJson) /\ ~CacheGetRaises(mode, client, isJson, kv)
       THEN /\ sc' = [sc EXCEPT ![p] =
                   [NewCache(api, isJson, isUpdate, isExcept) EXCEPT
                      !.data = CacheGet(mode, client, isJson, kv),
                      !.update = IF kv.kind # "none" THEN FALSE ELSE isUpdate,
                      !.hit = kv.kind # "none"]]
            /\ spc' = [spc EXCEPT ![p] = "body"]
            /\ cret' = NoCret
       ELSE /\ cret' = [NoCret EXCEPT !.outcome = "load_error"]
            /\ UNCHANGED <<sc, spc>>
    /\ UNCHANGED <<kv, wexp, promise>>

\* The scope is opened: with_cache up to its yield, or __enter__ /
\* __aenter__ of a SimpleCache / AsyncSimpleCache used directly. A store
\* error of the read (also the AttributeError of the asynchronous get on
\* a text reply) leaves the scope at once: the finally of with_cache finds
\* data = None and writes nothing. cret keeps how the last scope ended
\* only until a scope is opened.
OpenScope(p, api, isJson, isUpdate, isExcept, ok) ==
    /\ spc[p] = "idle"
    /\ IF ok /\ ~KvWrongType(kv, isJson) /\ ~CacheGetRaises(mode, client, isJson, kv)
       THEN /\ sc' = [sc EXCEPT ![p] =
                   [NewCache(api, isJson, isUpdate, isExcept) EXCEPT
                      !.data = CacheGet(mode, client, isJson, kv),
                      !.update = IF PyTruthy(CacheGet(mode, client, isJson, kv))
                                 THEN FALSE ELSE isUpdate,
                      !.hit = PyTruthy(CacheGet(mode, client, isJson, kv))]]
            /\ spc' = [spc EXCEPT ![p] = "body"]
            /\ cret' = NoCret
       ELSE /\ cret' = [NoCret EXCEPT !.outcome = "load_error"]
            /\ UNCHANGED <<sc, spc>>
    /\ UNCHANGED <<kv, wexp, promise>>

\* An assignment that also marks the entry as to be written.
AssignMarksDirty(p, v) ==
    /\ spc[p] = "body"
    /\ sc' = [sc EXCEPT ![p].data = v, ![p].assigned = TRUE, ![p].update = TRUE]
    /\ UNCHANGED <<kv, wexp, spc, cret, promise>>

\* The caller's block assigns cache.data = v: a plain attribute.
Assign(p, v) ==
    /\ spc[p] = "body"
    /\ sc' = [sc EXCEPT ![p].data = v, ![p].assigned = TRUE]
    /\ UNCHANGED <<kv, wexp, spc, cret, promise>>

\* The guard of the write on exit: if s_cache.update and s_cache.data
FlushWantedIfUpdate(c) == c.update
FlushWanted(c) == c.update /\ PyTruthy(c.data)

\* SimpleCache.set up to its store command: the assert on a mapping.
SetAsserts(c) == c.json /\ ~IsDict(c.data)

\* cache_data of set_json: the fields HMSET writes for the mapping v.
JsonFields(v) == {<<FieldName(f[1]), JsonDumps(f[2])>> : f \in DictItems(v)}

\* The fields HMSET writes for the mapping of the entry.
SetFields(c) == {<<FieldName(f[1]), JsonDumps(f[2])>> : f \in DictItems(c.data)}

\* The store after the commands of SimpleCache.set / AsyncSimpleCache.set.
SetStore(c, k) ==
    IF c.json
    THEN KvHmsetExpire(k, SetFields(c), CacheTTL)
    ELSE KvSet(k, JsonDumps(c.data), CacheTTL)

\* What leaves the scope when no error came from the write: the finally of
\* with_cache re-raises the caller's error; SimpleCache.__exit__ returns
\* True unless is_except; AsyncSimpleCache.__aexit__ also returns True
\* after every write.
ExitOutcome(m, c, raised, wrote) ==
    IF c.api = "with_cache"
    THEN IF raised THEN "caller_error" ELSE "ok"
    ELSE IF m = "async" /\ wrote THEN "ok"
    ELSE IF ~c.except THEN "ok"
    ELSE IF raised THEN "caller_error" ELSE "ok"

ScopeCase(c) ==
    IF c.hit THEN (IF c.assigned THEN "hit_assigned" ELSE "hit")
    ELSE (IF c.assigned THEN "miss_assigned" ELSE "miss")

\* AsyncSimpleCache.set of a mapping: the batch is an aioredis pipeline(),
\* which sends HMSET and EXPIRE as two commands without MULTI / EXEC, so
\* commands of other clients can run between the two. SimpleCache.set
\* uses the pipeline of redis-py, which is a transaction.
FlushInTwoSteps(m, c) == m = "async" /\ c.json

\* The caller's block ends, by return or by a raised error, and the scope
\* exits: the finally of with_cache, __exit__ or __aexit__. The SET of a
\* Scalar entry replaces a key of any type; the HMSET of a StructuredMap
\* entry is refused on a string key.
ExitScope(p, raised, ok) ==
    /\ spc[p] = "body"
    /\ LET c == sc[p]
           issued == FlushWanted(c) /\ ~SetAsserts(c)
           wrongType == issued /\ c.json /\ KvWrongType(kv, TRUE)
           storeFail == issued /\ ~ok
       IN /\ ~ok => issued
          /\ UNCHANGED wexp
          /\ IF issued /\ ~storeFail /\ FlushInTwoSteps(mode, c)
             THEN /\ kv' = KvHmset(kv, SetFields(c))
                  /\ spc' = [spc EXCEPT ![p] = "expire"]
                  /\ sc' = [sc EXCEPT ![p].raised = raised, ![p].refused = wrongType]
                  /\ UNCHANGED <<cret, promise>>
             ELSE /\ kv' = IF issued /\ ~storeFail THEN SetStore(c, kv) ELSE kv
                  /\ cret' = [outcome |->
                                 IF FlushWanted(c) /\ SetAsserts(c) THEN "assert_error"
                                 ELSE IF storeFail \/ wrongType THEN "flush_error"
                                 ELSE ExitOutcome(mode, c, raised, issued),
                              writes |-> IF issued THEN 1 ELSE 0,
                              raised |-> raised,
                              flushFailed |-> storeFail,
                              case |-> ScopeCase(c)]
                  /\ promise' =
                        IF ~c.hit /\ c.assigned /\ c.update /\ ~storeFail /\ ~wrongType
                           /\ (c.json => IsDict(c.data))
                        THEN [v |-> c.data, json |-> c.json, left |-> CacheTTL]
                        ELSE promise
                  /\ spc' = [spc EXCEPT ![p] = "idle"]
                  /\ sc' = [sc EXCEPT ![p] = IdleCache]

\* The second command of the batch of AsyncSimpleCache.set: EXPIRE key
\* ttl, applied also when the HMSET was refused; then execute() returns
\* or raises the error of the HMSET, and the scope has exited.
FlushExpire(p) ==
    /\ spc[p] = "expire"
    /\ LET c == sc[p]
       IN /\ kv' = KvExpire(kv, CacheTTL)
          /\ cret' = [outcome |-> IF c.refused THEN "flush_error"
                                  ELSE ExitOutcome(mode, c, c.raised, TRUE),
                      writes |-> 1,
                      raised |-> c.raised,
                      flushFailed |-> FALSE,
                      case |-> ScopeCase(c)]
          /\ promise' =
                IF ~c.hit /\ c.assigned /\ ~c.refused
                THEN [v |-> c.data, json |-> c.json, left |-> CacheTTL]
                ELSE promise
    /\ spc' = [spc EXCEPT ![p] = "idle"]
    /\ sc' = [sc EXCEPT ![p] = IdleCache]
    /\ UNCHANGED wexp

\* A mapping with bytes for a key, as a scope loads it from a client that
\* replies bytes.
HasBytesName(v) == \E f \in DictItems(v) : f[1] \in {"b'x'", "b'y'"}

\* SimpleCache.set / AsyncSimpleCache.set raises before any command is
\* sent: the assert on a mapping; in proxy.py pipe.hmset of redis-py
\* refuses a mapping without fields; in async_proxy.py the call
\* pipe.hmset_dict(key, **cache_data) takes the fields as keywords, which
\* have to be text.
ScopeSetRaises(m, c) ==
    c.json /\ (~IsDict(c.data)
               \/ (m = "sync" /\ DictItems(c.data) = {})
               \/ (m = "async" /\ HasBytesName(c.data)))

\* AsyncSimpleCache.set of a mapping without fields: hmset_dict refuses
\* it, the pipeline of aioredis keeps that error for execute(), the
\* EXPIRE is queued and sent all the same, and execute() raises.
ScopeSetExpireOnly(m, c) ==
    m = "async" /\ c.json /\ IsDict(c.data) /\ DictItems(c.data) = {}

\* The caller's block calls cache.set() itself: the entry is written
\* whatever update is. A set that raises before its commands has sent
\* nothing.
ScopeSet(p) ==
    /\ spc[p] = "body"
    /\ LET c == sc[p]
       IN IF ScopeSetRaises(mode, c)
          THEN UNCHANGED <<kv, spc, promise>>
          ELSE IF ScopeSetExpireOnly(mode, c)
          THEN /\ kv' = KvExpire(kv, CacheTTL)
               /\ promise' = IF kv' = kv THEN promise ELSE NoPromise
               /\ UNCHANGED spc
          ELSE /\ kv' = IF FlushInTwoSteps(mode, c)
                        THEN KvHmset(kv, SetFields(c)) ELSE SetStore(c, kv)
               /\ spc' = IF FlushInTwoSteps(mode, c)
                         THEN [spc EXCEPT ![p] = "setexpire"] ELSE spc
               /\ promise' = IF kv' = kv THEN promise ELSE NoPromise
    /\ UNCHANGED <<wexp, sc, cret>>

\* The EXPIRE of the batch of an AsyncSimpleCache.set the caller's block
\* called; the block goes on.
ScopeSetExpire(p) ==
    /\ spc[p] = "setexpire"
    /\ kv' = KvExpire(kv, CacheTTL)
    /\ spc' = [spc EXCEPT ![p] = "body"]
    /\ promise' = IF kv' = kv THEN promise ELSE NoPromise
    /\ UNCHANGED <<wexp, sc, cret>>

\* The values another user of the key stores, and the expiry it asks
\* for: none (ex=None), or the ttl the scopes use.
StoredValues == {"None", "0", "''", "False", "{}", "1"}
Expiries == {NoTTL, CacheTTL}

\* The fields another user writes to a hash at the key, the mappings it
\* passes to set_json (and a value that is no mapping), and the members it
\* adds to a set.
FieldPairs == {<<"x", "1">>, <<"y", "2">>}
JsonValues == {"{}", "{'x': 1}", "{'y': 2}", "1"}
Members == {"a"}

\* Another user of the key issued its command: when it changed the key,
\* what scopes and memoized calls left there before is no longer due.
Overwritten ==
    /\ promise' = IF kv' = kv THEN promise ELSE NoPromise
    /\ mret' = IF kv' = kv THEN mret ELSE [mret EXCEPT !.left = 0]
    /\ UNCHANGED <<spc, sc, cret, mfn, mpc, mcur>>

\* set_data(key, v, ex) by another user of the key, at any time. proxy.py
\* sends SET key json.dumps(v) with the expiry. async_proxy.py calls
\* redis_db.set(key, value, ex=ex) without await: the set of aioredis
\* takes expire, not ex, so the call raises TypeError and nothing is sent.
SetData(v, ex) ==
    IF mode = "sync"
    THEN /\ kv' = KvSet(kv, JsonDumps(v), ex)
         /\ Overwritten
         /\ UNCHANGED wexp
    ELSE UNCHANGED <<kv, wexp, promise, mret, spc, sc, cret, mfn, mpc, mcur>>

\* set(key, text, ex) by another user of the key: SET key text with the
\* expiry, in both variants, and without one for ex=None; set_many
\* (MSET) is the SET without expiry. The text is the JSON text of a value.
Set(text, ex) ==
    /\ kv' = KvSet(kv, text, ex)
    /\ Overwritten
    /\ UNCHANGED wexp

\* delete(key) by another user of the key: DEL key, in both variants;
\* delete_many([key]) sends the same command.
Delete ==
    /\ kv.kind # "none"
    /\ kv' = KvDelete(kv)
    /\ Overwritten
    /\ UNCHANGED wexp

\* hset(key, field, value, ex) by another user of the key, in proxy.py:
\* the batch HSET key field value, and EXPIRE key ex under if ex, as one
\* transaction. The value is the JSON text of a value.
Hset(field, text, ex) ==
    /\ mode = "sync"
    /\ kv' = KvHmsetIfExpire(kv, {<<field, text>>}, ex)
    /\ Overwritten
    /\ UNCHANGED wexp

\* hmset(key, values, ex) by another user of the key, in proxy.py: hmset
\* of redis-py refuses a mapping without fields before anything is sent;
\* else the batch HMSET key values, and EXPIRE key ex under if ex.
Hmset(fields, ex) ==
    /\ mode = "sync"
    /\ kv' = IF fields = {} THEN kv ELSE KvHmsetIfExpire(kv, fields, ex)
    /\ Overwritten
    /\ UNCHANGED wexp

\* set_json(key, v, ex) by another user of the key. proxy.py asserts a
\* mapping, hmset refuses one without fields, and the batch is one
\* transaction. async_proxy.py fails on v.items() of a value that is no
\* mapping, returns True for a mapping without fields, and its batch is
\* two commands: HMSET now, EXPIRE (under if ex) in a later step. One
\* such call is in progress at a time.
SetJson(v, ex) ==
    /\ wexp = NoTTL
    /\ IF ~IsDict(v) \/ DictItems(v) = {}
       THEN UNCHANGED <<kv, wexp>>
       ELSE IF mode = "sync"
       THEN /\ kv' = KvHmsetIfExpire(kv, JsonFields(v), ex)
            /\ UNCHANGED wexp
       ELSE /\ kv' = KvHmset(kv, JsonFields(v))
            /\ wexp' = ex
    /\ Overwritten

\* The EXPIRE of the batch of set_json in async_proxy.py, applied also
\* when its HMSET was refused.
SetJsonExpire ==
    /\ wexp # NoTTL
    /\ kv' = KvExpire(kv, wexp)
    /\ wexp' = NoTTL
    /\ Overwritten

\* hdel(key, field) / hmdel(key, fields) by another user of the key, in
\* proxy.py: HDEL key names.
Hdel(names) ==
    /\ mode = "sync"
    /\ kv' = KvHdel(kv, names)
    /\ Overwritten
    /\ UNCHANGED wexp

\* sadd(key, values) by another user of the key, in async_proxy.py:
\* nothing is sent for no values, else SADD key values.
Sadd(values) ==
    /\ mode = "async"
    /\ kv' = IF values = {} THEN kv ELSE KvSadd(kv, values)
    /\ Overwritten
    /\ UNCHANGED wexp

\* spop(key) by another user of the key, in async_proxy.py: SPOP key 1,
\* Redis choosing the member.
Spop ==
    /\ mode = "async"
    /\ \E popped \in {s \in SUBSET kv.members :
                           Cardinality(s) = IF kv.members = {} THEN 0 ELSE 1} :
          kv' = KvSpop(kv, popped)
    /\ Overwritten
    /\ UNCHANGED wexp

\* A second passes at the store.
CacheTick ==
    /\ (kv.kind # "none" /\ kv.ttl > 0) \/ promise.left > 0
    /\ kv' = KvTick(kv)
    /\ promise' = IF promise.left > 1
                  THEN [promise EXCEPT !.left = promise.left - 1]
                  ELSE NoPromise
    /\ UNCHANGED <<wexp, spc, sc, cret>>

\* ------------------------------------------------------------- the memoizer
\* RedisCacheProxy.memoize exists in proxy.py only. One function f is
\* wrapped; it is pure and returns fval for the arguments of every call, so
\* every call uses the same cache key.
NoFn == [fval |-> "None", json |-> FALSE, update |-> FALSE, except |-> FALSE]

NoCur == [read |-> "None", writes |-> 0]

NoMret == [n |-> 0, outcome |-> "none", value |-> "None", invoked |-> 0,
           writes |-> 0, failed |-> "none", left |-> 0]

\* get_data: GET, and json.loads of a reply that is not empty.
GetData(k) == IF ReplyTruthy(KvGet(k)) THEN JsonLoads(KvGet(k)) ELSE "None"

\* get_json: HGETALL, the value of every field decoded and its name kept
\* as the client replied it; {} for no fields.
GetJson(c, k) ==
    IF KvHgetall(k) # {}
    THEN DictOf({<<ReplyName(c, f[1]), JsonLoads(f[2])>> : f \in KvHgetall(k)})
    ELSE "{}"

GetFunc(c, isJson, k) == IF isJson THEN GetJson(c, k) ELSE GetData(k)

\* set_json before its batch is executed: the assert on a mapping, and
\* hmset, which refuses a mapping without fields. set_data never raises
\* before its SET.
SetFuncRaises(isJson, v) ==
    IF isJson
    THEN (IF ~IsDict(v) THEN "assert_error"
          ELSE IF DictItems(v) = {} THEN "data_error" ELSE "none")
    ELSE "none"

\* The store after set_json / set_data with ex.
SetFunc(isJson, k, v, ex) ==
    IF isJson
    THEN KvHmsetExpire(k, {<<FieldName(f[1]), JsonDumps(f[2])>> : f \in DictItems(v)}, ex)
    ELSE KvSet(k, JsonDumps(v), ex)

\* The decorator is applied to f.
Memoize(fval, isJson, isUpdate, exc) ==
    /\ mode = "sync"
    /\ mpc = "none"
    /\ mfn' = [fval |-> fval, json |-> isJson, update |-> isUpdate, except |-> exc]
    /\ mpc' = "idle"
    /\ UNCHANGED <<kv, wexp, mcur, mret>>

\* decorated_function returns or raises.
MemoFinish(outcome, value, invoked, writes, failed, left) ==
    /\ mret' = [n |-> 1 - mret.n, outcome |-> outcome, value |-> value,
                invoked |-> invoked, writes |-> writes,
                failed |-> failed, left |-> left]
    /\ mpc' = "idle"
    /\ mcur' = NoCur

\* An except clause that always falls back to f.
OnCacheErrorFallsBack(failed, writes) ==
    MemoFinish("ok", mfn.fval, 1, writes, failed, mret.left)

\* The except clause of decorated_function: raise ValueError(e) when
\* exception is set, else return f(*args, **kwargs) without caching it.
OnCacheError(failed, writes) ==
    IF mfn.except
    THEN MemoFinish("value_error", "None", 0, writes, failed, mret.left)
    ELSE MemoFinish("ok", mfn.fval, 1, writes, failed, mret.left)

\* cache_data = get_func(cache_key), and without is_update the decision
\* between hit and miss.
MemoRead(ok) ==
    /\ mpc = "idle"
    /\ LET data == GetFunc(client, mfn.json, kv)
       IN IF ~ok \/ KvWrongType(kv, mfn.json)
          THEN OnCacheError("read", 0)
          ELSE IF mfn.update
          THEN /\ mpc' = "refresh"
               /\ mcur' = [read |-> data, writes |-> 0]
               /\ UNCHANGED mret
          ELSE IF PyTruthy(data)
          THEN MemoFinish("ok", data, 0, 0, "none", mret.left)
          ELSE /\ mpc' = "compute"
               /\ mcur' = [read |-> data, writes |-> 0]
               /\ UNCHANGED mret
    /\ UNCHANGED <<kv, wexp, mfn>>

\* The batch of set_json is answered WRONGTYPE: its HMSET is refused,
\* its EXPIRE is applied, and execute() raises.
SetFuncWrongType(isJson, k) == isJson /\ KvWrongType(k, TRUE)

\* if is_update: set_func(cache_key, cache_data, ex=ex), then the decision
\* between hit and miss. An error of set_func is caught by the except,
\* also the WRONGTYPE of a key another user made a string meanwhile.
MemoRefresh(ok) ==
    /\ mpc = "refresh"
    /\ LET data == mcur.read
           refused == SetFuncRaises(mfn.json, data) # "none"
       IN /\ ~ok => ~refused
          /\ IF refused \/ ~ok
             THEN /\ OnCacheError(IF refused THEN "none" ELSE "write", IF refused THEN 0 ELSE 1)
                  /\ UNCHANGED kv
             ELSE /\ kv' = SetFunc(mfn.json, kv, data, CacheTTL)
                  /\ IF SetFuncWrongType(mfn.json, kv)
                     THEN OnCacheError("write", 1)
                     ELSE IF PyTruthy(data)
                     THEN MemoFinish("ok", data, 0, 1, "none", CacheTTL)
                     ELSE /\ mpc' = "compute"
                          /\ mcur' = [mcur EXCEPT !.writes = 1]
                          /\ UNCHANGED mret
    /\ UNCHANGED <<wexp, mfn>>

\* cache_data = f(*args, **kwargs); set_func(cache_key, cache_data, ex=ex);
\* return cache_data. These lines are outside the try: an error of
\* set_func reaches the caller as it is, also the WRONGTYPE of a key
\* another user made a string meanwhile.
MemoCompute(ok) ==
    /\ mpc = "compute"
    /\ LET refused == SetFuncRaises(mfn.json, mfn.fval)
       IN /\ ~ok => refused = "none"
          /\ IF refused # "none"
             THEN /\ MemoFinish(refused, "None", 1, mcur.writes, "none", mret.left)
                  /\ UNCHANGED kv
             ELSE IF ~ok
             THEN /\ MemoFinish("store_error", "None", 1, mcur.writes + 1, "write", mret.left)
                  /\ UNCHANGED kv
             ELSE /\ kv' = SetFunc(mfn.json, kv, mfn.fval, CacheTTL)
                  /\ IF SetFuncWrongType(mfn.json, kv)
                     THEN MemoFinish("store_error", "None", 1, mcur.writes + 1,
                                     "write", mret.left)
                     ELSE MemoFinish("ok", mfn.fval, 1, mcur.writes + 1, "none", CacheTTL)
    /\ UNCHANGED <<wexp, mfn>>

\* delete_memoize(key, is_safe) for the arguments of the calls, at any
\* time: EXPIRE cache_key -1 when is_safe, else DEL cache_key.
DeleteMemoize(isSafe) ==
    /\ mode = "sync"
    /\ mpc # "none"
    /\ kv.kind # "none"
    /\ kv' = IF isSafe THEN KvExpire(kv, -1) ELSE KvDelete(kv)
    /\ mret' = [mret EXCEPT !.left = 0]
    /\ UNCHANGED <<wexp, mfn, mpc, mcur>>

\* A second passes at the store.
MemoTick ==
    /\ mpc # "none"
    /\ (kv.kind # "none" /\ kv.ttl > 0) \/ mret.left > 0
    /\ kv' = KvTick(kv)
    /\ mret' = [mret EXCEPT !.left = IF mret.left > 0 THEN mret.left - 1 ELSE 0]
    /\ UNCHANGED <<wexp, mfn, mpc, mcur>>

\* ------------------------------------------------------------ the cache key
\* An argument is [cls, chars]: its class and str(x) as a sequence of
\* characters.
MaxArgs == 1

KwNames == {"a", "b"}

KeyValues ==
    { [cls |-> "int", chars |-> <<"0">>],
      [cls |-> "int", chars |-> <<"1">>],
      [cls |-> "int", chars |-> <<"2">>],
      [cls |-> "int", chars |-> <<"-", "1">>],
      [cls |-> "int", chars |-> <<"1", "2">>],
      [cls |-> "str", chars |-> <<>>],
      [cls |-> "str", chars |-> <<"a">>],
      [cls |-> "str", chars |-> <<"b", "-">>],
      [cls |-> "bool", chars |-> <<"T", "r", "u", "e">>],
      [cls |-> "NoneType", chars |-> <<"N", "o", "n", "e">>] }

\* ord(c) of the characters that occur.
Ord(c) ==
    CASE c = "," -> 44 [] c = "-" -> 45
      [] c = "0" -> 48 [] c = "1" -> 49 [] c = "2" -> 50
      [] c = ":" -> 58
      [] c = "N" -> 78 [] c = "T" -> 84
      [] c = "a" -> 97 [] c = "b" -> 98 [] c = "e" -> 101
      [] c = "n" -> 110 [] c = "o" -> 111 [] c = "r" -> 114 [] c = "u" -> 117

\* a < b for str: the order sorted() uses.
RECURSIVE StrLess(_, _)
StrLess(a, b) ==
    IF b = <<>> THEN FALSE
    ELSE IF a = <<>> THEN TRUE
    ELSE IF Ord(Head(a)) # Ord(Head(b)) THEN Ord(Head(a)) < Ord(Head(b))
    ELSE StrLess(Tail(a), Tail(b))

\* lambda x: x.__class__ in {str, int} and x
KeyFilter(x) ==
    /\ x.cls \in {"str", "int"}
    /\ IF x.cls = "int" THEN x.chars # <<"0">> ELSE x.chars # <<>>

\* str(i).replace("-", "")
NoDash(chars) == SelectSeq(chars, LAMBDA c : c # "-")

\* ",".join(l)
RECURSIVE Join(_)
Join(l) ==
    IF l = <<>> THEN <<>>
    ELSE IF Len(l) = 1 THEN l[1]
    ELSE l[1] \o <<",">> \o Join(Tail(l))

\* hashlib.md5 of the text: a digest that stands for the text it was
\* made of (collisions of md5 are not modelled).
Md5(text) == [md5 |-> text]

\* A key made of the arguments in the order they were passed.
MakeCacheKeyUnsorted(args, kwvalues) ==
    LET l_data == SelectSeq(args \o kwvalues, KeyFilter)
        strs == [i \in 1..Len(l_data) |-> NoDash(l_data[i].chars)]
    IN Md5(<<":">> \o Join(strs))

\* _make_cache_key(*args, **kwargs); kwvalues is list(kwargs.values()).
MakeCacheKey(args, kwvalues) ==
    LET l_data == SelectSeq(args \o kwvalues, KeyFilter)
        strs == [i \in 1..Len(l_data) |-> NoDash(l_data[i].chars)]
    IN Md5(<<":">> \o Join(SortSeq(strs, StrLess)))

NoKey == [md5 |-> <<>>]

\* The orders in which the keyword arguments of names can be passed.
KwOrders(names) ==
    {o \in [1..Cardinality(names) -> names] :
        \A i, j \in 1..Cardinality(names) : o[i] = o[j] => i = j}

\* The caller picks the arguments of its calls.
KeyArgs(args, kw) ==
    /\ kargs = <<>> /\ kkw = <<>> /\ kseen = {}
    /\ kargs' = args
    /\ kkw' = kw
    /\ kseen' = {}
    /\ kkey' = NoKey
    /\ kfirst' = NoKey

\* The wrapped function is called with the keyword arguments passed in
\* the order o: decorated_function computes its cache key.
KeyCall(o) ==
    /\ o \in KwOrders(DOMAIN kkw)
    /\ kkey' = MakeCacheKey(kargs, [i \in 1..Len(o) |-> kkw[o[i]]])
    /\ kfirst' = IF kseen = {} THEN kkey' ELSE kfirst
    /\ kseen' = kseen \cup {o}
    /\ UNCHANGED <<kargs, kkw>>

Init ==
    /\ mode \in Modes
    /\ client \in Clients
    /\ lock = KeyAbsent
    /\ owner = NoProc
    /\ lpc = [p \in Procs |-> "idle"]
    /\ entry = [p \in Procs |-> "none"]
    /\ abort = [p \in Procs |-> "none"]
    /\ ret = NoRet
    /\ faults = {}
    /\ kv = KvAbsent
    /\ wexp = NoTTL
    /\ spc = [p \in ScopeIds |-> "idle"]
    /\ sc = [p \in ScopeIds |-> IdleCache]
    /\ cret = NoCret
    /\ promise = NoPromise
    /\ mfn = NoFn
    /\ mpc = "none"
    /\ mcur = NoCur
    /\ mret = NoMret
    /\ kargs = <<>>
    /\ kkw = <<>>
    /\ kseen = {}
    /\ kkey = NoKey
    /\ kfirst = NoKey

vars == <<mode, client, lock, owner, lpc, entry, abort, ret, faults,
          kv, wexp, spc, sc, cret, promise, mfn, mpc, mcur, mret,
          kargs, kkw, kseen, kkey, kfirst>>

NextLock ==
    /\ UNCHANGED <<mode, client, cacheVars, memoVars, keyVars>>
    /\ \/ \E p \in Procs : CallWithLock(p)
       \/ \E p \in Procs : CallAcquireLock(p)
       \/ \E p \in Procs : CallReleaseLock(p)
       \/ \E p \in Procs, ok \in BOOLEAN : AcquireGet(p, ok)
       \/ \E p \in Procs : AcquireSleep(p)
       \/ \E p \in Procs, ok \in BOOLEAN : AcquireSetnx(p, ok)
       \/ \E p \in Procs, ok \in BOOLEAN : AcquireExpire(p, ok)
       \/ \E p \in Procs, applied \in BOOLEAN : Cancel(p, applied)
       \/ \E p \in Procs, raised \in BOOLEAN, ok \in BOOLEAN : ExitCS(p, raised, ok)
       \/ \E p \in Procs, ok \in BOOLEAN : ReleaseLock(p, ok)
       \/ LockTick

SpecLock == Init /\ [][NextLock]_vars

\* Cache scopes opened one after the other by one caller.
APIs == {"with_cache", "simple_cache"}

NextCache ==
    /\ UNCHANGED <<mode, client, lockVars, memoVars, keyVars>>
    /\ \/ \E api \in APIs, isJson \in BOOLEAN, isUpdate \in BOOLEAN,
             isExcept \in BOOLEAN, ok \in BOOLEAN :
             OpenScope("s1", api, isJson, isUpdate, isExcept, ok)
       \/ \E v \in Assignable : Assign("s1", v)
       \/ \E raised \in BOOLEAN, ok \in BOOLEAN : ExitScope("s1", raised, ok)
       \/ FlushExpire("s1")
       \/ CacheTick

SpecCache == Init /\ [][NextCache]_vars

\* Cache scopes on a key that other users write and delete at any time,
\* with a caller that can also call set() of the scope object itself.
NextCacheShared ==
    /\ UNCHANGED <<mode, client, lockVars, memoVars, keyVars>>
    /\ \/ \E api \in APIs, isJson \in BOOLEAN, isUpdate \in BOOLEAN,
             isExcept \in BOOLEAN, ok \in BOOLEAN :
             OpenScope("s1", api, isJson, isUpdate, isExcept, ok)
       \/ \E v \in Assignable : Assign("s1", v)
       \/ \E raised \in BOOLEAN, ok \in BOOLEAN : ExitScope("s1", raised, ok)
       \/ FlushExpire("s1")
       \/ ScopeSet("s1")
       \/ ScopeSetExpire("s1")
       \/ \E v \in StoredValues, ex \in Expiries : SetData(v, ex)
       \/ \E v \in StoredValues, ex \in Expiries : Set(JsonDumps(v), ex)
       \/ Delete
       \/ \E f \in FieldPairs, ex \in Expiries : Hset(f[1], f[2], ex)
       \/ \E fields \in SUBSET FieldPairs, ex \in Expiries : Hmset(fields, ex)
       \/ \E v \in JsonValues, ex \in Expiries : SetJson(v, ex)
       \/ SetJsonExpire
       \/ \E names \in SUBSET {"x", "y"} : Hdel(names)
       \/ \E values \in SUBSET Members : Sadd(values)
       \/ Spop
       \/ CacheTick

SpecCacheShared == Init /\ [][NextCacheShared]_vars

\* Two with_cache scopes on the same key whose steps interleave; the store
\* is available and both were opened with is_update.
ConcurrentValues == {"1", "{'x': 1}", "{'y': 2}"}

NextCacheConcurrent ==
    /\ UNCHANGED <<mode, client, lockVars, memoVars, keyVars>>
    /\ \/ \E p \in ScopeIds, isJson \in BOOLEAN :
             OpenScope(p, "with_cache", isJson, TRUE, FALSE, TRUE)
       \/ \E p \in ScopeIds, v \in ConcurrentValues : Assign(p, v)
       \/ \E p \in ScopeIds : ExitScope(p, FALSE, TRUE)
       \/ \E p \in ScopeIds : FlushExpire(p)
       \/ CacheTick

SpecCacheConcurrent == Init /\ [][NextCacheConcurrent]_vars

\* Calls of one memoized function, one after the other, on a cache key
\* that can be deleted with delete_memoize and written with set_data,
\* hset, hmset and set_json.
NextMemo ==
    /\ UNCHANGED <<mode, client, lockVars, spc, sc, cret, promise, keyVars>>
    /\ \/ \E fval \in Assignable, isJson \in BOOLEAN, isUpdate \in BOOLEAN,
             exc \in BOOLEAN : Memoize(fval, isJson, isUpdate, exc)
       \/ \E ok \in BOOLEAN : MemoRead(ok)
       \/ \E ok \in BOOLEAN : MemoRefresh(ok)
       \/ \E ok \in BOOLEAN : MemoCompute(ok)
       \/ \E isSafe \in BOOLEAN : DeleteMemoize(isSafe)
       \/ \E v \in StoredValues, ex \in Expiries : SetData(v, ex)
       \/ \E f \in FieldPairs, ex \in Expiries : Hset(f[1], f[2], ex)
       \/ \E fields \in SUBSET FieldPairs, ex \in Expiries : Hmset(fields, ex)
       \/ \E v \in JsonValues, ex \in Expiries : SetJson(v, ex)
       \/ SetJsonExpire
       \/ MemoTick

SpecMemo == Init /\ [][NextMemo]_vars

\* The lock with participants that can die or be cancelled; the store is
\* available.
NextCrash ==
    /\ UNCHANGED <<mode, client, cacheVars, memoVars, keyVars>>
    /\ \/ \E p \in Procs : CallWithLock(p)
       \/ \E p \in Procs : CallAcquireLock(p)
       \/ \E p \in Procs : CallReleaseLock(p)
       \/ \E p \in Procs : AcquireGet(p, TRUE)
       \/ \E p \in Procs : AcquireSleep(p)
       \/ \E p \in Procs : AcquireSetnx(p, TRUE)
       \/ \E p \in Procs : AcquireExpire(p, TRUE)
       \/ \E p \in Procs, applied \in BOOLEAN : Cancel(p, applied)
       \/ \E p \in Procs, raised \in BOOLEAN : ExitCS(p, raised, TRUE)
       \/ \E p \in Procs : ReleaseLock(p, TRUE)
       \/ LockTick
       \/ \E p \in Procs : Crash(p)

SpecCrash == Init /\ [][NextCrash]_vars

\* One step of the acquire_lock of p with the store available.
AcquireStep(p) ==
    \/ AcquireGet(p, TRUE)
    \/ AcquireSleep(p)
    \/ AcquireSetnx(p, TRUE)
    \/ AcquireExpire(p, TRUE)

\* with_lock callers that can die, with an available store: time passes
\* at the store and every participant that is alive in acquire_lock gets
\* to take its next step.
NextCrashFair ==
    /\ UNCHANGED <<mode, client, cacheVars, memoVars, keyVars>>
    /\ \/ \E p \in Procs : CallWithLock(p)
       \/ \E p \in Procs : AcquireStep(p)
       \/ \E p \in Procs, raised \in BOOLEAN : ExitCS(p, raised, TRUE)
       \/ LockTick
       \/ \E p \in Procs : Crash(p)

\* The steps that are taken when they stay possible: a second passing at
\* the store, and the next step of a participant in acquire_lock.
FairTick == LockTick /\ UNCHANGED <<mode, client, cacheVars, memoVars, keyVars>>
FairAcquire(p) == AcquireStep(p) /\ UNCHANGED <<mode, client, cacheVars, memoVars, keyVars>>

SpecCrashFair ==
    /\ Init /\ [][NextCrashFair]_vars
    /\ WF_vars(FairTick)
    /\ \A p \in Procs : WF_vars(FairAcquire(p))

\* Cache keys of calls with chosen arguments.
ArgLists == UNION {[1..n -> KeyValues] : n \in 0..MaxArgs}
KwArgs == UNION {[names -> KeyValues] : names \in SUBSET KwNames}

NextKey ==
    /\ UNCHANGED <<mode, client, lockVars, cacheVars, memoVars>>
    /\ \/ \E args \in ArgLists, kw \in KwArgs : KeyArgs(args, kw)
       \/ \E o \in KwOrders(DOMAIN kkw) : KeyCall(o)

SpecKey == Init /\ [][NextKey]_vars

\* C1: while every participant uses with_lock only, no store operation
\* failed, nobody was cancelled and no key expired under a critical
\* section, at most one participant is inside its critical section.
MutualExclusion == faults = {} => Cardinality(Holders) <= 1

\* C1 witness: a participant is inside its critical section while another
\* one, having read the key as present, waits in the poll sleep.
MutualExclusionWitness ==
    /\ faults = {}
    /\ \E a, b \in Procs : a # b /\ lpc[a] = "cs" /\ lpc[b] = "sleep"

\* C2: with every participant going through with_lock and no key expiring
\* under a critical section, an acquire_lock does not return while another
\* participant holds the lock: the key goes away only by the holder's
\* release_lock or by its expiry.
SecondAcquirerBlocked ==
    ("direct" \notin faults /\ "overrun" \notin faults) => Cardinality(Holders) <= 1

\* C8: every end of the critical section of with_lock, by return or by a
\* raised error, performs release_lock: when its store command completes
\* the key is absent, and a read of an absent key leads to SETNX at once.
ReleasedOnEveryExit ==
    [][\A p \in Procs :
        /\ (/\ lpc[p] = "cs" /\ lpc'[p] = "idle" /\ entry[p] = "with_lock"
            /\ ret'.outcome \in {"ok", "raised"})
           => ~lock'.present
        /\ (lpc[p] = "get" /\ lpc'[p] \notin {"get", "release", "idle"} /\ ~lock.present)
           => lpc'[p] = "setnx"]_vars

\* C8 witness: a with_lock whose critical section raised has exited and
\* the key is absent.
ReleasedOnEveryExitWitness ==
    /\ ret.op = "with_lock" /\ ret.outcome = "raised"
    /\ ~lock.present

\* C9: release_lock on an absent key (released, expired or never acquired)
\* does not raise and leaves the key absent, and releasing twice leaves
\* the store as releasing once does.
ReleaseIdempotent ==
    /\ [][\A p \in Procs :
            (/\ lpc[p] = "release" /\ entry[p] = "release_lock" /\ lpc'[p] = "idle"
             /\ ~lock.present /\ ret'.outcome # "store_error")
            => (ret'.outcome = "ok" /\ ~lock'.present)]_vars
    /\ [](ReleaseStore(mode, ReleaseStore(mode, lock)) = ReleaseStore(mode, lock))
    /\ [](~ReleaseStore(mode, lock).present)

\* C9 witness: a direct release_lock on a key that was absent has returned.
ReleaseIdempotentWitness ==
    /\ ret.op = "release_lock" /\ ret.outcome = "ok"
    /\ ~lock.present /\ owner = NoProc
    /\ \A p \in Procs : lpc[p] = "idle"

\* C10: a with_lock cancelled in the poll sleep of its acquisition leaves
\* the store as it is: its remaining steps do not change the key.
CancelLeavesNoSideEffect ==
    [][\A p \in Procs :
        (lpc[p] = "release" /\ abort[p] = "cancelled_in_sleep" /\ lpc'[p] = "idle")
        => lock' = lock]_vars

\* isinstance(v, tuple): the one kind of value here that json.dumps and
\* json.loads do not give back as it was.
IsTuple(v) == v = "(1, 2)"

\* The scope p is opened by this step / exits by this step / its caller
\* assigns a value by this step.
OpensNow(p) == spc[p] = "idle" /\ spc'[p] = "body"
ExitsNow(p) == spc[p] \in {"body", "expire"} /\ spc'[p] = "idle"
AssignsNow(p) == spc[p] = "body" /\ spc'[p] = "body" /\ sc'[p] # sc[p]

\* The entry holds a value: one loaded by a hit or one the caller assigned.
ValuePresent(c) == (c.hit /\ ~c.assigned) \/ (c.assigned /\ c.data # "None")

\* C3: after a scope that missed, was assigned v and exited, a scope
\* opened on the key with the same encoding before the ttl elapses exposes
\* v and is not dirty; stated for the values a scope writes on exit and
\* JSON gives back unchanged: every non-empty (truthy) v that is no tuple.
CacheRoundTripNonEmpty ==
    [][\A p \in ScopeIds :
        (OpensNow(p) /\ promise.left > 0 /\ sc'[p].json = promise.json
         /\ PyTruthy(promise.v) /\ ~IsTuple(promise.v))
        => (sc'[p].data = promise.v /\ ~sc'[p].update)]_vars

\* C4 as stated: every exit of the scope issues exactly one write when
\* update is true and a value is present, and none when update is false or
\* the value is absent.
FlushOnExit ==
    [][\A p \in ScopeIds : ExitsNow(p) =>
        /\ (sc[p].update /\ ValuePresent(sc[p])) => cret'.writes = 1
        /\ (~sc[p].update \/ ~ValuePresent(sc[p])) => (cret'.writes = 0 /\ kv' = kv)]_vars

\* C4 as amended: every exit, by return or by a raised error, issues
\* exactly one write, with the entry's ttl, when update is true and the
\* value is non-empty (truthy; a mapping for the hash encoding), and none
\* when update is false or the value is empty.
FlushOnExitNonEmpty ==
    [][\A p \in ScopeIds : ExitsNow(p) =>
        /\ (sc[p].update /\ PyTruthy(sc[p].data) /\ (sc[p].json => IsDict(sc[p].data)))
           => /\ cret'.writes = 1
              /\ cret'.outcome # "flush_error" => (kv'.kind # "none" /\ kv'.ttl = CacheTTL)
        /\ (~sc[p].update \/ ~PyTruthy(sc[p].data)) => (cret'.writes = 0 /\ kv' = kv)]_vars

\* C4 witness: a scope whose block raised has exited with one write, and
\* the key is there with its ttl.
FlushOnExitWitness ==
    /\ cret.raised /\ cret.writes = 1 /\ cret.outcome = "caller_error"
    /\ kv.kind # "none" /\ kv.ttl = CacheTTL

\* C5: when the store fails in the write on exit, a scope with is_except
\* false exits without raising, one with is_except true raises the store
\* error, and the value is not persisted.
FlushErrorSuppressed ==
    [][\A p \in ScopeIds : (ExitsNow(p) /\ cret'.flushFailed) =>
        /\ kv' = kv
        /\ ~sc[p].except => cret'.outcome = "ok"
        /\ sc[p].except => cret'.outcome = "flush_error"]_vars

\* C6: an error raised by the caller's block leaves the scope (when the
\* write on exit raised nothing itself), for every is_except and whether
\* or not a write happened.
CallerErrorPropagates ==
    [][\A p \in ScopeIds :
        (ExitsNow(p) /\ cret'.raised /\ cret'.outcome \notin {"flush_error", "assert_error"})
        => cret'.outcome = "caller_error"]_vars

\* C7 as stated: an assignment of the value by the caller sets update, also
\* after a hit, so a value assigned after a hit is written on exit.
OverwriteMarksDirty ==
    [][\A p \in ScopeIds :
        /\ (AssignsNow(p) /\ sc[p].hit) => sc'[p].update
        /\ (ExitsNow(p) /\ sc[p].hit /\ sc[p].assigned /\ PyTruthy(sc[p].data)
            /\ (sc[p].json => IsDict(sc[p].data)))
           => cret'.writes = 1]_vars

\* C7 as amended: an assignment of the value by the caller leaves update
\* as it was, so after a hit (update false) the assigned value is not
\* written on exit and the key keeps the value it had.
OverwriteKeepsDirty ==
    [][\A p \in ScopeIds :
        /\ AssignsNow(p) => sc'[p].update = sc[p].update
        /\ (ExitsNow(p) /\ sc[p].hit) => (cret'.writes = 0 /\ kv' = kv)]_vars

\* C7 witness: a scope that hit and whose caller then assigned a value
\* has exited without a write, the key still being there.
OverwriteKeepsDirtyWitness ==
    /\ cret.case = "hit_assigned" /\ cret.writes = 0 /\ cret.outcome = "ok"
    /\ kv.kind # "none"

\* C11: a store error of the GET or the SETNX of acquire_lock leaves
\* acquire_lock at once: the acquisition issues no further command (the
\* key is as it was, no retry), the error goes to the caller (through the
\* finally of with_lock), and the caller does not enter its critical
\* section from there.
StoreFailureAborts ==
    /\ [][("storefail" \notin faults /\ "storefail" \in faults'
           /\ \A q \in Procs : lpc[q] \in {"cs", "release", "expire"} => lpc'[q] = lpc[q])
          => \E p \in Procs :
                /\ lpc[p] \in {"get", "setnx"}
                /\ lock' = lock
                /\ IF entry[p] = "with_lock"
                   THEN lpc'[p] = "release" /\ abort'[p] = "store_error"
                   ELSE lpc'[p] = "idle"
                        /\ ret' = [proc |-> p, op |-> "acquire_lock",
                                   outcome |-> "store_error"]]_vars
    /\ [][\A p \in Procs : lpc[p] = "release" => lpc'[p] \in {"release", "idle"}]_vars

\* C11 witness: the read of a with_lock failed while another participant
\* holds the lock; the acquisition is over and the error is pending.
StoreFailureAbortsWitness ==
    \E a, b \in Procs :
        /\ a # b /\ lpc[a] = "cs" /\ lock.present
        /\ lpc[b] = "release" /\ abort[b] = "store_error"
        /\ faults = {"storefail"}

\* C18: acquire_lock reads first; a present key leads to the sleep and
\* from the sleep back to the read, never to SETNX; an absent key leads to
\* SETNX; a lost SETNX leads back to the read without a sleep; the
\* critical section is entered only from the EXPIRE that follows the
\* caller's own successful SETNX, which sets the ttl.
PollingSteps ==
    [][\A p \in Procs :
        /\ (lpc[p] = "idle" /\ lpc'[p] \notin {"idle", "release"}) => lpc'[p] = "get"
        /\ (lpc[p] = "get" /\ lpc'[p] \notin {"get", "release", "idle"})
           => /\ lpc'[p] = (IF lock.present THEN "sleep" ELSE "setnx")
              /\ lock' = lock
        /\ (lpc[p] = "sleep" /\ lpc'[p] \notin {"sleep", "release", "idle"})
           => (lpc'[p] = "get" /\ lock' = lock)
        /\ (lpc[p] = "setnx" /\ lpc'[p] \notin {"setnx", "release", "idle"})
           => IF lock.present
              THEN lpc'[p] = "get" /\ lock' = lock
              ELSE lpc'[p] = "expire" /\ lock'.present /\ owner' = p
        /\ (lpc[p] # "cs" /\ lpc'[p] = "cs")
           => /\ lpc[p] = "expire"
              /\ lock.present => lock'.ttl = LockTTL]_vars

\* C18 witness: one participant has returned from acquire_lock, its key
\* carrying the ttl, while another one that lost against it has read the
\* key as present and sleeps.
PollingStepsWitness ==
    \E a, b \in Procs :
        /\ a # b /\ lpc[a] = "cs" /\ owner = a
        /\ ret = [proc |-> a, op |-> "acquire_lock", outcome |-> "ok"]
        /\ lock.present /\ lock.ttl = LockTTL
        /\ lpc[b] = "sleep"

\* C20: the flush of a StructuredMap entry is one batch, HMSET of all
\* fields and EXPIRE with the ttl of the entry, so in every reachable
\* state a hash at the cache key carries an expiry, and the step of a
\* scope exit that writes the hash is the step that sets its ttl.
HashFlushCarriesExpiry ==
    /\ kv.kind = "hash" => kv.ttl \in 1..CacheTTL
    /\ (cret.writes = 1 /\ kv.kind = "hash" /\ promise.left = CacheTTL)
       => kv.ttl = CacheTTL

\* C15: the synchronous and the asynchronous variant expose the same
\* values to the caller for the same inputs and the same store: the value
\* a scope exposes when it is opened is the one SimpleCache.get gives on
\* the store and also the one AsyncSimpleCache.get gives on it.
SyncAsyncSameExposure ==
    [][\A p \in ScopeIds : OpensNow(p) =>
        /\ sc'[p].data = CacheGet("sync", client, sc'[p].json, kv)
        /\ sc'[p].data = CacheGet("async", client, sc'[p].json, kv)]_vars

\* A call of the wrapped function starts by this step (its read is done) /
\* a call of the wrapped function returns or raises by this step.
MemoReadsNow == mpc = "idle" /\ (mpc' \in {"refresh", "compute"} \/ mret'.n # mret.n)
MemoReturnsNow == mpc \in {"idle", "refresh", "compute"} /\ mret'.n # mret.n

\* The call before this one invoked f, returned its result, and the result
\* was written less than ttl ago; is_update is off.
SecondCallWithinTTL ==
    /\ ~mfn.update
    /\ mret.outcome = "ok" /\ mret.invoked = 1 /\ mret.left > 0

\* C12: the second of two successive calls within the ttl, with the store
\* available and is_update off, does not invoke f and returns the value
\* the first call returned; stated for the values the code caches and
\* JSON gives back unchanged: every truthy value of f that is no tuple.
MemoHitAvoidsRecomputeTruthy ==
    [][(SecondCallWithinTTL /\ MemoReadsNow
        /\ PyTruthy(mfn.fval) /\ ~IsTuple(mfn.fval)
        /\ ~(MemoReturnsNow /\ mret'.failed = "read"))
       => (MemoReturnsNow /\ mret'.invoked = 0 /\ mret'.value = mret.value)]_vars

\* C14: when the read of a call raises a store error, then with exception
\* set the call raises without invoking f, and with exception not set f is
\* invoked once, its result is returned, and no write is issued; the store
\* is unchanged either way.
MemoReadErrorPolicy ==
    [][(MemoReturnsNow /\ mret'.failed = "read") =>
        /\ kv' = kv /\ mret'.writes = 0
        /\ IF mfn.except
           THEN mret'.outcome = "value_error" /\ mret'.invoked = 0
           ELSE /\ mret'.outcome = "ok" /\ mret'.invoked = 1
                /\ mret'.value = mfn.fval]_vars

\* C14 witness: a call whose read failed has raised, f not invoked, while
\* the store holds nothing.
MemoReadErrorPolicyWitness ==
    /\ mret.failed = "read" /\ mfn.except
    /\ mret.outcome = "value_error" /\ mret.invoked = 0 /\ mret.writes = 0
    /\ kv.kind = "none"

\* C19: with is_update and the store available, every call writes what it
\* read before it decides between hit and miss, also on a miss; on a miss
\* f is then invoked and its result is in the store when the call returns.
MemoRefreshOnHit ==
    /\ [][(mfn.update /\ mpc = "refresh" /\ mpc' = "idle" /\ mret'.failed = "none")
          => (mret'.writes = 1 /\ kv'.ttl = CacheTTL)]_vars
    /\ [][(mfn.update /\ mpc = "refresh" /\ mpc' = "compute")
          => (mcur'.writes = 1 /\ kv'.ttl = CacheTTL)]_vars
    /\ [][(mfn.update /\ MemoReturnsNow /\ mret'.failed = "none"
           /\ mret'.outcome = "ok" /\ mret'.invoked = 1)
          => (mret'.writes = 2
              /\ GetFunc(client, mfn.json, kv') = JsonLoads(JsonDumps(mfn.fval)))]_vars

\* C13: the key of a call is the key of the first call with the same
\* arguments, whatever the order in which the keyword arguments are passed.
KeyOrderIndependent ==
    kseen # {} => kkey = kfirst

\* C13 witness: two calls passed a = 2, b = 1 in both orders, after the
\* positional argument 'b-', and got the key of ":1,2,b".
KeyOrderIndependentWitness ==
    /\ Cardinality(kseen) = 2
    /\ kargs = <<[cls |-> "str", chars |-> <<"b", "-">>]>>
    /\ DOMAIN kkw = KwNames
    /\ kkw["a"].chars = <<"2">> /\ kkw["b"].chars = <<"1">>
    /\ kkey = kfirst
    /\ kkey = Md5(<<":", "1", ",", "2", ",", "b">>)

\* The participant q is in acquire_lock while the key of a holder that
\* died in its critical section, after its EXPIRE, is still present with
\* its expiry, and q is the only participant alive.
WaitsForCrashedHolder(q) ==
    /\ lpc[q] \in {"get", "sleep", "setnx"}
    /\ lock.present /\ lock.ttl > 0
    /\ owner # q /\ owner \in Procs
    /\ lpc[owner] = "crashed" /\ abort[owner] = "crash_in_cs"
    /\ \A r \in Procs \ {q} : lpc[r] = "crashed"

\* C16: a single waiting acquirer whose store is available and that is
\* scheduled fairly gets the lock of a holder that died after its EXPIRE:
\* the key goes with its ttl and acquire_lock returns (unless the
\* acquirer dies itself).
CrashedHolderExpires ==
    \A q \in Procs : WaitsForCrashedHolder(q) ~> (lpc[q] \in {"cs", "crashed"})

\* C16 witness: q is in its critical section on its own key while the
\* participant that died in its critical section never released.
CrashedHolderExpiresWitness ==
    \E a, q \in Procs :
        /\ a # q
        /\ lpc[a] = "crashed" /\ abort[a] = "crash_in_cs"
        /\ lpc[q] = "cs" /\ owner = q /\ lock.present /\ lock.ttl = LockTTL
        /\ "overrun" \notin faults

\* The key is present without expiry and nobody is about to set one.
Orphaned ==
    /\ lock.present /\ lock.ttl = NoTTL
    /\ \A p \in Procs : lpc[p] # "expire"

\* C17: SETNX and EXPIRE are two steps; a participant that dies, or whose
\* direct acquire_lock is cancelled, between them (its EXPIRE not applied)
\* leaves the key present without expiry; from then on, as long as no
\* release_lock is executed, the key stays as it is and no acquire_lock
\* returns.
SetnxExpireGap ==
    /\ [][\A p \in Procs :
            (lpc[p] = "setnx" /\ lpc'[p] = "expire")
            => (lock'.present /\ lock'.ttl = NoTTL /\ owner' = p)]_vars
    /\ [][\A p \in Procs :
            (lpc[p] = "expire" /\ lock.present /\ lock.ttl = NoTTL
             /\ (lpc'[p] = "crashed" \/ (lpc'[p] = "idle" /\ entry[p] = "acquire_lock"))
             /\ lock' # RedisExpire(lock, LockTTL))
            => (lock' = lock /\ lock'.present /\ lock'.ttl = NoTTL)]_vars
    /\ [][(Orphaned /\ \A p \in Procs : lpc[p] \in {"cs", "release"} => lpc'[p] = lpc[p])
          => /\ Orphaned'
             /\ lock' = lock
             /\ \A p \in Procs : lpc'[p] = "cs" => lpc[p] = "cs"]_vars

\* C17 witness: a participant died between its SETNX and its EXPIRE, the
\* key has no expiry, and another participant polls: it has read the key
\* as present and sleeps.
SetnxExpireGapWitness ==
    \E a, b \in Procs :
        /\ a # b
        /\ lpc[a] = "crashed" /\ abort[a] = "crash_before_expire" /\ owner = a
        /\ Orphaned
        /\ lpc[b] = "sleep"

\* C21: while a participant holds the lock (its acquire_lock returned, it
\* has not released and the key it set is still there), no step of
\* another participant that goes through with_lock removes the key: not a
\* with_lock whose acquisition failed or was cancelled, and not the late
\* exit of a former holder whose key had expired.
OnlyHolderOrTTLRemoves ==
    [][\A a, b \in Procs :
        (/\ a # b
         /\ lpc[a] = "cs" /\ owner = a /\ lock.present
         /\ entry[b] = "with_lock" /\ lpc'[b] # lpc[b])
        => lock'.present]_vars

\* How often each text / integer value occurs among the arguments.
ScalarCount(values) ==
    [v \in {x \in KeyValues : x.cls \in {"str", "int"}} |->
        Cardinality({i \in DOMAIN values : values[i] = v})]

\* C24: a call whose text / integer argument values differ from those of
\* the call made (as a multiset) has a different cache key.
KeysSeparateCalls ==
    \A o \in kseen : \A other \in ArgLists :
        ScalarCount(other) # ScalarCount(kargs \o [i \in 1..Len(o) |-> kkw[o[i]]])
        => MakeCacheKey(other, <<>>) # kkey

\* C23: a scope whose value at exit is empty or falsy issues no write,
\* also with update set; a scope that loads such a value from the store
\* does not count it as a hit and keeps the update flag it was opened with.
EmptyNeverPersisted ==
    /\ [][\A p \in ScopeIds :
            (ExitsNow(p) /\ ~PyTruthy(sc[p].data))
            => (cret'.writes = 0 /\ kv' = kv)]_vars
    /\ [][\A p \in ScopeIds :
            (OpensNow(p) /\ ~PyTruthy(sc'[p].data))
            => (~sc'[p].hit /\ sc'[p].update = sc'[p].asked)]_vars

\* C23 witness: the key holds the text of a zero; a scope opened on it
\* with is_update has loaded 0, is not a hit and is still to be written.
EmptyNeverPersistedWitness ==
    /\ kv.kind = "string" /\ kv.str = "0"
    /\ spc["s1"] = "body" /\ sc["s1"].data = "0"
    /\ ~sc["s1"].hit /\ sc["s1"].update /\ ~sc["s1"].assigned

\* C22: whatever the interleaving of two scopes that missed, set a value
\* and flushed, the value a scope then loads from the key is one that a
\* single scope flushed (as json gives it back), never a mixture.
LastWriterWins ==
    [][\A p \in ScopeIds :
        (OpensNow(p) /\ sc'[p].hit)
        => sc'[p].data \in {JsonLoads(JsonDumps(v)) : v \in ConcurrentValues}]_vars

====
